---- MODULE Spec2Model ----
(***************************************************************************)
(* The Challenges screen (frontend/app/(tabs)/challenges.tsx): the React   *)
(* state of the component, the three asynchronous workflows                *)
(* (loadChallenges, startChallenge, handleCheckIn), the requests they have *)
(* in flight, and the backend they talk to.                                *)
(*                                                                         *)
(* A nullable value (selectedChallenge, notes: string | undefined, an      *)
(* error's detail) is a sequence of length 0 (null / undefined) or 1.      *)
(* A string the code inspects (checkInNotes) is a sequence of characters.  *)
(***************************************************************************)
EXTENDS Integers, Sequences, FiniteSets, TLC

VARIABLES
    challenges,         \* useState<Challenge[]>([])              (line 87)
    isLoading,          \* useState(true)                         (line 88)
    modalVisible,       \* useState(false)                        (line 89)
    checkInModal,       \* useState(false)                        (line 90)
    selectedChallenge,  \* useState<Challenge | null>(null)       (line 91)
    checkInNotes,       \* useState('')                           (line 92)
    isSubmitting,       \* useState(false)                        (line 93)
    mounted,            \* the component instance is still mounted
    alert,              \* the last Alert.alert call, <<>> before the first
    console,            \* the last console.error call, <<>> before the first
    net,                \* the axios requests awaiting their continuation
    server,             \* the backend: its challenges and today's check-ins
    submitted,          \* number of create and check-in requests issued so far
    view                \* challenges.map(renderChallenge) of the last render observed

vars == <<challenges, isLoading, modalVisible, checkInModal, selectedChallenge,
          checkInNotes, isSubmitting, mounted, alert, console, net, server, submitted,
          view>>

uiVars == <<challenges, isLoading, modalVisible, checkInModal, selectedChallenge,
            checkInNotes, isSubmitting, alert, console>>

(***************************************************************************)
(* Bounds of the model.                                                    *)
(***************************************************************************)
MaxMutations == 2    \* create and check-in requests the user submits at most
MaxDuration == 8     \* duration_days of a rendered challenge at most
MantissaBits == 10   \* significand width of the modelled floating-point numbers
MaxNoteLen == 4      \* characters typed into the notes field at most
MaxDays == 4         \* days the modelled calendar spans
DayTicks == 3        \* instants told apart within one day
MaxBadges == 2       \* badges of a rendered challenge at most

(***************************************************************************)
(* Static registries.                                                      *)
(***************************************************************************)
challengeTemplates ==
    << [type |-> "hydration",       title |-> "3-Day Hydration Hustle",
        description |-> "Drink 8 glasses of water daily",
        duration |-> 3,  icon |-> "water",        color |-> "#06B6D4"],
       [type |-> "no_sugar",        title |-> "No Sugar Week",
        description |-> "Avoid added sugars for 7 days",
        duration |-> 7,  icon |-> "close-circle", color |-> "#EF4444"],
       [type |-> "mindful_morning", title |-> "Mindful Morning Challenge",
        description |-> "10 minutes of meditation each morning",
        duration |-> 7,  icon |-> "sunny",        color |-> "#F59E0B"],
       [type |-> "exercise",        title |-> "30-Day Fitness Journey",
        description |-> "30 minutes of exercise daily",
        duration |-> 30, icon |-> "fitness",      color |-> "#10B981"],
       [type |-> "sleep",           title |-> "Sleep Master Challenge",
        description |-> "8 hours of sleep for 14 days",
        duration |-> 14, icon |-> "moon",         color |-> "#6366F1"] >>

badgeInfo ==
    [b \in {"3_day_streak", "week_warrior", "challenge_completed"} |->
        CASE b = "3_day_streak" -> [label |-> "3 Day Streak", icon |-> "flame",  color |-> "#F59E0B"]
          [] b = "week_warrior" -> [label |-> "Week Warrior", icon |-> "trophy", color |-> "#EF4444"]
          [] OTHER              -> [label |-> "Champion",     icon |-> "ribbon", color |-> "#6366F1"]]

(***************************************************************************)
(* Helpers on sequences.                                                   *)
(***************************************************************************)
Range(s) == {s[i] : i \in DOMAIN s}

RemoveAt(s, i) == [j \in 1..(Len(s) - 1) |-> IF j < i THEN s[j] ELSE s[j + 1]]

Count(s, P(_)) == Cardinality({i \in DOMAIN s : P(s[i])})

(***************************************************************************)
(* JavaScript numbers: binary floating point, round to nearest, ties to    *)
(* even, with a significand of MantissaBits bits.  A finite number is      *)
(* m / 2^k with m = 0 or 2^(MantissaBits-1) <= m < 2^MantissaBits.         *)
(***************************************************************************)
RECURSIVE Pow2(_)
Pow2(n) == IF n = 0 THEN 1 ELSE 2 * Pow2(n - 1)

NaN == [kind |-> "NaN"]

Infinity == [kind |-> "Infinity"]

Zero == [kind |-> "num", m |-> 0, k |-> 0]

\* num / den rounded to the nearest integer, ties to even
RoundHalfEven(num, den) ==
    LET q == num \div den
        r == num % den
    IN  IF 2 * r < den THEN q
        ELSE IF 2 * r > den THEN q + 1
        ELSE IF q % 2 = 0 THEN q ELSE q + 1

\* the scale of the exact quotient num / den > 0: the k with
\* 2^(MantissaBits-1) <= floor(num * 2^k / den) < 2^MantissaBits
Scale(num, den) ==
    CHOOSE k \in (0 - MantissaBits)..(2 * MantissaBits) :
        LET f == IF k >= 0 THEN (num * Pow2(k)) \div den
                           ELSE num \div (den * Pow2(0 - k))
        IN  Pow2(MantissaBits - 1) <= f /\ f < Pow2(MantissaBits)

\* the floating-point number nearest to the exact quotient num / den >= 0
Round(num, den) ==
    IF num = 0 THEN Zero
    ELSE LET k == Scale(num, den)
             m == IF k >= 0 THEN RoundHalfEven(num * Pow2(k), den)
                            ELSE RoundHalfEven(num, den * Pow2(0 - k))
         IN  IF m = Pow2(MantissaBits)
             THEN [kind |-> "num", m |-> Pow2(MantissaBits - 1), k |-> k - 1]
             ELSE [kind |-> "num", m |-> m, k |-> k]

\* a / b on two small non-negative integers
FDiv(a, b) ==
    IF b = 0 THEN (IF a = 0 THEN NaN ELSE Infinity)
    ELSE Round(a, b)

\* x * n for a number x and a small non-negative integer n
FMul(x, n) ==
    IF x.kind # "num" THEN x
    ELSE IF x.k >= 0 THEN Round(x.m * n, Pow2(x.k))
    ELSE Round(x.m * n * Pow2(0 - x.k), 1)

\* x <= y on finite numbers
FLeq(x, y) ==
    LET o == IF x.k < y.k THEN x.k ELSE y.k
    IN  x.m * Pow2(y.k - o) <= y.m * Pow2(x.k - o)

\* x = n for a finite number x and an integer n >= 0
FIs(x, n) == x.kind = "num" /\ FLeq(x, Round(n, 1)) /\ FLeq(Round(n, 1), x)

(***************************************************************************)
(* String.prototype.trim on a sequence of characters.                      *)
(***************************************************************************)
Chars == {" ", "\n", "a"}

IsSpace(ch) == ch \in {" ", "\n"}

RECURSIVE TrimStart(_)
TrimStart(s) ==
    IF s # <<>> /\ IsSpace(Head(s)) THEN TrimStart(Tail(s)) ELSE s

RECURSIVE TrimEnd(_)
TrimEnd(s) ==
    IF s # <<>> /\ IsSpace(s[Len(s)]) THEN TrimEnd(SubSeq(s, 1, Len(s) - 1)) ELSE s

Trim(s) == TrimEnd(TrimStart(s))

\* NotesField sending the trimmed text even when it is empty
NotesField_EmptyString(notes) == <<Trim(notes)>>

\* checkInNotes.trim() || undefined
NotesField(notes) == IF Trim(notes) = <<>> THEN <<>> ELSE <<Trim(notes)>>

\* the texts the user leaves in the notes field: none, or a note with blanks
\* around it
NoteTexts == {<<>>, <<" ", "a", " ">>}

(***************************************************************************)
(* The backend (HTTP collaborator).  Its code is not part of the client    *)
(* sources; it is modelled from the interface table and the per-challenge  *)
(* state machine of the specification.                                     *)
(***************************************************************************)
\* the catalog entry the modelled user starts challenges from, and the
\* backend holds a challenge of when the screen opens
Templates == {challengeTemplates[2]}

\* POST /api/challenges/create: the Challenge the backend stores
NewChallenge(id, body) ==
    [id |-> id, challenge_type |-> body.challenge_type, title |-> body.title,
     description |-> body.description, duration_days |-> body.duration_days,
     completed_days |-> 0, is_active |-> TRUE, is_completed |-> FALSE,
     badges |-> <<>>]

\* streak badges a challenge with n completed days is eligible for
Eligible(n) ==
    (IF n >= 3 THEN {"3_day_streak"} ELSE {}) \cup
    (IF n >= 7 THEN {"week_warrior"} ELSE {})

\* the badge arrays, in award order, over a set of streak badges
StreakSeqs(S) ==
    {<<>>} \cup
    (IF "3_day_streak" \in S THEN {<<"3_day_streak">>} ELSE {}) \cup
    (IF "week_warrior" \in S THEN {<<"week_warrior">>} ELSE {}) \cup
    (IF {"3_day_streak", "week_warrior"} \subseteq S
        THEN {<<"3_day_streak", "week_warrior">>} ELSE {})

\* the streak badges the backend may add on reaching n days: none, or every
\* eligible one the challenge does not hold yet
Awards(c, n) ==
    LET new == Eligible(n) \ Range(c.badges)
    IN  {<<>>} \cup {s \in StreakSeqs(new) : Range(s) = new}

\* a challenge after one successful check-in that awards the badges aw
CheckedIn(c, aw) ==
    LET n    == c.completed_days + 1
        done == n = c.duration_days
    IN  [c EXCEPT !.completed_days = n,
                  !.is_completed = done,
                  !.is_active = ~done,
                  !.badges = c.badges \o aw \o
                             (IF done THEN <<"challenge_completed">> ELSE <<>>)]

\* the completed days of the challenge the backend holds when the screen
\* opens: a new one, one past the first streak, one a day short, a completed one
StoredDays(t) == {0, 3, t.duration - 1, t.duration}

\* the challenges a backend may hold for a template when the screen opens;
\* they hold every streak badge their days make them eligible for
StoredChallenges(t) ==
    {[NewChallenge(1, [challenge_type |-> t.type, title |-> t.title,
                       description |-> t.description, duration_days |-> t.duration])
        EXCEPT !.completed_days = n,
               !.is_completed = (n = t.duration),
               !.is_active = (n # t.duration),
               !.badges = s \o (IF n = t.duration THEN <<"challenge_completed">> ELSE <<>>)]
     : <<n, s>> \in {p \in StoredDays(t) \X StreakSeqs({"3_day_streak", "week_warrior"}) :
                        Range(p[2]) = Eligible(p[1])}}

InitServers ==
    {[challenges |-> <<>>, checked |-> {}]} \cup
    {[challenges |-> <<c>>, checked |-> {}] : c \in UNION {StoredChallenges(t) : t \in Templates}}

Ok(data) == [ok |-> TRUE, data |-> data]

Failure(kind, detail) == [ok |-> FALSE, kind |-> kind, detail |-> detail]

TransportFailure == Failure("TransportFailure", <<>>)

Unauthorized == Failure("Unauthorized", <<"Could not validate credentials">>)

Find(cs, id) == {k \in DOMAIN cs : cs[k].id = id}

\* GET /api/challenges/active
ServeLoad(i) ==
    /\ net[i].kind = "load"
    /\ net' = [net EXCEPT ![i].status = "done", ![i].resp = Ok(server.challenges)]
    /\ UNCHANGED server

\* POST /api/challenges/create
ServeCreate(i) ==
    /\ net[i].kind = "create"
    /\ LET c == NewChallenge(Len(server.challenges) + 1, net[i].body)
       IN  /\ server' = [server EXCEPT !.challenges = Append(@, c)]
           /\ net' = [net EXCEPT ![i].status = "done", ![i].resp = Ok([id |-> c.id])]

\* POST /api/challenges/checkin
ServeCheckIn(i) ==
    /\ net[i].kind = "checkin"
    /\ LET id == net[i].body.challenge_id
           at == Find(server.challenges, id)
       IN  IF at = {}
           THEN /\ net' = [net EXCEPT ![i].status = "done",
                                      ![i].resp = Failure("NotFound", <<"Challenge not found">>)]
                /\ UNCHANGED server
           ELSE LET k == CHOOSE k \in at : TRUE
                    c == server.challenges[k]
                IN  IF id \in server.checked \/ c.is_completed
                    THEN /\ net' = [net EXCEPT ![i].status = "done",
                                               ![i].resp = Failure("ValidationRejected",
                                                    IF c.is_completed
                                                    THEN <<"Challenge already completed">>
                                                    ELSE <<"Already checked in today">>)]
                         /\ UNCHANGED server
                    ELSE \E aw \in Awards(c, c.completed_days + 1) :
                            LET d == CheckedIn(c, aw)
                            IN  /\ server' = [challenges |-> [server.challenges EXCEPT ![k] = d],
                                              checked |-> server.checked \cup {id}]
                                /\ net' = [net EXCEPT ![i].status = "done",
                                              ![i].resp = Ok([ai_feedback |-> "feedback",
                                                              completed_days |-> d.completed_days,
                                                              badges |-> d.badges])]

\* the backend handles one request it has received
Serve ==
    \E i \in DOMAIN net :
        /\ net[i].status = "sent"
        /\ \/ ServeLoad(i)
           \/ ServeCreate(i)
           \/ ServeCheckIn(i)
        /\ UNCHANGED <<uiVars, mounted, submitted, view>>

\* midnight on the backend: the daily check-ins are open again
NewDay ==
    /\ server.checked # {}
    /\ server' = [server EXCEPT !.checked = {}]
    /\ UNCHANGED <<uiVars, mounted, net, submitted, view>>

\* the ways the promise of request r can be rejected: the failure the backend
\* answered, a transport failure at any time, a rejected token on arrival
Rejections(r) ==
    {TransportFailure} \cup
    (IF r.status = "sent" THEN {Unauthorized} ELSE {}) \cup
    (IF r.status = "done" /\ ~r.resp.ok THEN {r.resp} ELSE {})

(***************************************************************************)
(* The component.                                                          *)
(***************************************************************************)
\* a state setter called on the mounted component, ignored after unmount
SetState(new, old) == IF mounted THEN new ELSE old

IsLoad(r) == r.kind = "load"

IsCreate(r) == r.kind = "create"

IsCheckIn(r) == r.kind = "checkin"

LoadCount(n) == Count(n, IsLoad)

\* axios.get(`${BACKEND_URL}/api/challenges/active`)
LoadRequest == [kind |-> "load", status |-> "sent", resp |-> <<>>]

\* loadChallenges() up to its await: the requests in flight after the call
loadChallenges(n) == Append(n, LoadRequest)

\* axios.post(`${BACKEND_URL}/api/challenges/create`, {...})
CreateRequest(template) ==
    [kind |-> "create", status |-> "sent", resp |-> <<>>,
     body |-> [challenge_type |-> template.type, title |-> template.title,
               description |-> template.description,
               duration_days |-> template.duration]]

\* axios.post(`${BACKEND_URL}/api/challenges/checkin`, {...}); sel is the
\* selectedChallenge the handler's closure holds
CheckInRequest(sel, notes) ==
    [kind |-> "checkin", status |-> "sent", resp |-> <<>>, sel |-> sel,
     body |-> [challenge_id |-> sel.id, notes |-> NotesField(notes)]]

\* ErrorMessage ignoring the detail of the error response
ErrorMessage_Generic(err, fallback) == fallback

\* error.response?.data?.detail || fallback
ErrorMessage(err, fallback) ==
    IF err.detail # <<>> /\ err.detail[1] # "" THEN err.detail[1] ELSE fallback

Init ==
    /\ challenges = <<>>
    /\ isLoading = TRUE
    /\ modalVisible = FALSE
    /\ checkInModal = FALSE
    /\ selectedChallenge = <<>>
    /\ checkInNotes = <<>>
    /\ isSubmitting = FALSE
    /\ mounted = TRUE
    /\ alert = <<>>
    /\ console = <<>>
    /\ net = loadChallenges(<<>>)       \* useEffect(() => { loadChallenges(); }, [])
    /\ server \in InitServers
    /\ submitted = 0
    /\ view = <<>>

\* loadChallenges: the response arrived
LoadResolved(i) ==
    /\ IsLoad(net[i]) /\ net[i].status = "done" /\ net[i].resp.ok
    /\ challenges' = SetState(net[i].resp.data, challenges)
    /\ isLoading' = SetState(FALSE, isLoading)
    /\ net' = RemoveAt(net, i)
    /\ UNCHANGED <<modalVisible, checkInModal, selectedChallenge, checkInNotes,
                   isSubmitting, mounted, alert, console, server, submitted, view>>

\* LoadRejected with a catch block that also clears the list
LoadRejected_Clearing(i, err) ==
    /\ IsLoad(net[i]) /\ err \in Rejections(net[i])
    /\ challenges' = SetState(<<>>, challenges)
    /\ console' = <<"Error loading challenges:">>
    /\ isLoading' = SetState(FALSE, isLoading)
    /\ net' = RemoveAt(net, i)
    /\ UNCHANGED <<modalVisible, checkInModal, selectedChallenge,
                   checkInNotes, isSubmitting, mounted, alert, server, submitted, view>>

\* LoadRejected with a catch block that calls loadChallenges() again
LoadRejected_Retrying(i, err) ==
    /\ IsLoad(net[i]) /\ err \in Rejections(net[i])
    /\ console' = <<"Error loading challenges:">>
    /\ isLoading' = SetState(FALSE, isLoading)
    /\ net' = loadChallenges(RemoveAt(net, i))
    /\ UNCHANGED <<challenges, modalVisible, checkInModal, selectedChallenge,
                   checkInNotes, isSubmitting, mounted, alert, server, submitted, view>>

\* loadChallenges: the request failed
LoadRejected(i, err) ==
    /\ IsLoad(net[i]) /\ err \in Rejections(net[i])
    /\ console' = <<"Error loading challenges:">>
    /\ isLoading' = SetState(FALSE, isLoading)
    /\ net' = RemoveAt(net, i)
    /\ UNCHANGED <<challenges, modalVisible, checkInModal, selectedChallenge,
                   checkInNotes, isSubmitting, mounted, alert, server, submitted, view>>

\* startChallenge without setIsSubmitting(true)
startChallenge_Unlocked(template) ==
    /\ net' = Append(net, CreateRequest(template))
    /\ submitted' = submitted + 1
    /\ UNCHANGED <<challenges, isLoading, modalVisible, checkInModal, selectedChallenge,
                   checkInNotes, isSubmitting, mounted, alert, console, server, view>>

\* startChallenge(template) up to its await
startChallenge(template) ==
    /\ isSubmitting' = SetState(TRUE, isSubmitting)
    /\ net' = Append(net, CreateRequest(template))
    /\ submitted' = submitted + 1
    /\ UNCHANGED <<challenges, isLoading, modalVisible, checkInModal, selectedChallenge,
                   checkInNotes, mounted, alert, console, server, view>>

\* CreateResolved without setModalVisible(false)
CreateResolved_KeepOpen(i) ==
    /\ IsCreate(net[i]) /\ net[i].status = "done" /\ net[i].resp.ok
    /\ net' = loadChallenges(RemoveAt(net, i))
    /\ alert' = <<[title |-> "Success", message |-> "Challenge started! Good luck!"]>>
    /\ isSubmitting' = SetState(FALSE, isSubmitting)
    /\ UNCHANGED <<challenges, isLoading, modalVisible, checkInModal, selectedChallenge,
                   checkInNotes, mounted, console, server, submitted, view>>

\* startChallenge: the response arrived
CreateResolved(i) ==
    /\ IsCreate(net[i]) /\ net[i].status = "done" /\ net[i].resp.ok
    /\ modalVisible' = SetState(FALSE, modalVisible)
    /\ net' = loadChallenges(RemoveAt(net, i))
    /\ alert' = <<[title |-> "Success", message |-> "Challenge started! Good luck!"]>>
    /\ isSubmitting' = SetState(FALSE, isSubmitting)
    /\ UNCHANGED <<challenges, isLoading, checkInModal, selectedChallenge, checkInNotes,
                   mounted, console, server, submitted, view>>

\* CreateRejected with a catch block that also closes the modal
CreateRejected_Closing(i, err) ==
    /\ IsCreate(net[i]) /\ err \in Rejections(net[i])
    /\ alert' = <<[title |-> "Error", message |-> ErrorMessage(err, "Failed to start challenge")]>>
    /\ modalVisible' = SetState(FALSE, modalVisible)
    /\ isSubmitting' = SetState(FALSE, isSubmitting)
    /\ net' = RemoveAt(net, i)
    /\ UNCHANGED <<challenges, isLoading, checkInModal, selectedChallenge,
                   checkInNotes, mounted, console, server, submitted, view>>

\* startChallenge: the request failed
CreateRejected(i, err) ==
    /\ IsCreate(net[i]) /\ err \in Rejections(net[i])
    /\ alert' = <<[title |-> "Error", message |-> ErrorMessage(err, "Failed to start challenge")]>>
    /\ isSubmitting' = SetState(FALSE, isSubmitting)
    /\ net' = RemoveAt(net, i)
    /\ UNCHANGED <<challenges, isLoading, modalVisible, checkInModal, selectedChallenge,
                   checkInNotes, mounted, console, server, submitted, view>>

\* handleCheckIn without setIsSubmitting(true)
handleCheckIn_Unlocked ==
    IF selectedChallenge = <<>>
    THEN UNCHANGED vars
    ELSE /\ net' = Append(net, CheckInRequest(selectedChallenge[1], checkInNotes))
         /\ submitted' = submitted + 1
         /\ UNCHANGED <<challenges, isLoading, modalVisible, checkInModal, selectedChallenge,
                        checkInNotes, isSubmitting, mounted, alert, console, server, view>>

\* handleCheckIn() up to its await
handleCheckIn ==
    IF selectedChallenge = <<>>
    THEN UNCHANGED vars
    ELSE /\ isSubmitting' = SetState(TRUE, isSubmitting)
         /\ net' = Append(net, CheckInRequest(selectedChallenge[1], checkInNotes))
         /\ submitted' = submitted + 1
         /\ UNCHANGED <<challenges, isLoading, modalVisible, checkInModal, selectedChallenge,
                        checkInNotes, mounted, alert, console, server, view>>

\* the "New badges earned!" part of the success message
NewBadgesSignal(data) == Len(data.badges) > 0

\* the list with the checked-in challenge patched from the response
Patched(cs, id, data) ==
    [k \in DOMAIN cs |->
        IF cs[k].id = id
        THEN [cs[k] EXCEPT !.completed_days = data.completed_days, !.badges = data.badges]
        ELSE cs[k]]

\* CheckInResolved patching the list locally instead of leaving it to the reload
CheckInResolved_Patching(i) ==
    /\ IsCheckIn(net[i]) /\ net[i].status = "done" /\ net[i].resp.ok
    /\ checkInModal' = SetState(FALSE, checkInModal)
    /\ checkInNotes' = SetState(<<>>, checkInNotes)
    /\ challenges' = SetState(Patched(challenges, net[i].body.challenge_id, net[i].resp.data),
                              challenges)
    /\ net' = loadChallenges(RemoveAt(net, i))
    /\ alert' = <<[title |-> "Great Job!",
                   ai_feedback |-> net[i].resp.data.ai_feedback,
                   completed_days |-> net[i].resp.data.completed_days,
                   newBadges |-> NewBadgesSignal(net[i].resp.data)]>>
    /\ isSubmitting' = SetState(FALSE, isSubmitting)
    /\ UNCHANGED <<isLoading, modalVisible, selectedChallenge,
                   mounted, console, server, submitted, view>>

\* CheckInResolved without the call of loadChallenges()
CheckInResolved_NoReload(i) ==
    /\ IsCheckIn(net[i]) /\ net[i].status = "done" /\ net[i].resp.ok
    /\ checkInModal' = SetState(FALSE, checkInModal)
    /\ checkInNotes' = SetState(<<>>, checkInNotes)
    /\ net' = RemoveAt(net, i)
    /\ alert' = <<[title |-> "Great Job!",
                   ai_feedback |-> net[i].resp.data.ai_feedback,
                   completed_days |-> net[i].resp.data.completed_days,
                   newBadges |-> NewBadgesSignal(net[i].resp.data)]>>
    /\ isSubmitting' = SetState(FALSE, isSubmitting)
    /\ UNCHANGED <<challenges, isLoading, modalVisible, selectedChallenge,
                   mounted, console, server, submitted, view>>

\* handleCheckIn: the response arrived
CheckInResolved(i) ==
    /\ IsCheckIn(net[i]) /\ net[i].status = "done" /\ net[i].resp.ok
    /\ checkInModal' = SetState(FALSE, checkInModal)
    /\ checkInNotes' = SetState(<<>>, checkInNotes)
    /\ net' = loadChallenges(RemoveAt(net, i))
    /\ alert' = <<[title |-> "Great Job!",
                   ai_feedback |-> net[i].resp.data.ai_feedback,
                   completed_days |-> net[i].resp.data.completed_days,
                   newBadges |-> NewBadgesSignal(net[i].resp.data)]>>
    /\ isSubmitting' = SetState(FALSE, isSubmitting)
    /\ UNCHANGED <<challenges, isLoading, modalVisible, selectedChallenge,
                   mounted, console, server, submitted, view>>

\* CheckInRejected with a catch block that drops the selection and the card
CheckInRejected_Dropping(i, err) ==
    /\ IsCheckIn(net[i]) /\ err \in Rejections(net[i])
    /\ alert' = <<[title |-> "Error", message |-> ErrorMessage(err, "Failed to check in")]>>
    /\ isSubmitting' = SetState(FALSE, isSubmitting)
    /\ selectedChallenge' = SetState(<<>>, selectedChallenge)
    /\ challenges' = SetState(SelectSeq(challenges,
                                  LAMBDA c : c.id # net[i].body.challenge_id), challenges)
    /\ net' = RemoveAt(net, i)
    /\ UNCHANGED <<isLoading, modalVisible, checkInModal,
                   checkInNotes, mounted, console, server, submitted, view>>

\* CheckInRejected without the finally block's setIsSubmitting(false)
CheckInRejected_Stuck(i, err) ==
    /\ IsCheckIn(net[i]) /\ err \in Rejections(net[i])
    /\ alert' = <<[title |-> "Error", message |-> ErrorMessage(err, "Failed to check in")]>>
    /\ net' = RemoveAt(net, i)
    /\ UNCHANGED <<challenges, isLoading, modalVisible, checkInModal, selectedChallenge,
                   checkInNotes, isSubmitting, mounted, console, server, submitted, view>>

\* handleCheckIn: the request failed
CheckInRejected(i, err) ==
    /\ IsCheckIn(net[i]) /\ err \in Rejections(net[i])
    /\ alert' = <<[title |-> "Error", message |-> ErrorMessage(err, "Failed to check in")]>>
    /\ isSubmitting' = SetState(FALSE, isSubmitting)
    /\ net' = RemoveAt(net, i)
    /\ UNCHANGED <<challenges, isLoading, modalVisible, checkInModal, selectedChallenge,
                   checkInNotes, mounted, console, server, submitted, view>>

(***************************************************************************)
(* What the screen renders, and the presses it accepts.                    *)
(***************************************************************************)
\* the list and the header are rendered (not the loading indicator)
ScreenShown == mounted /\ ~isLoading

\* a Modal covers the screen
ModalShown == modalVisible \/ checkInModal

\* challengeTemplates.find((t) => t.type === challenge.challenge_type)
FindTemplate(type) ==
    LET at == {k \in DOMAIN challengeTemplates : challengeTemplates[k].type = type}
    IN  IF at = {} THEN <<>>
        ELSE <<challengeTemplates[CHOOSE k \in at : \A j \in at : k <= j]>>

\* badgeInfo[badge]
BadgeData(badge) == IF badge \in DOMAIN badgeInfo THEN <<badgeInfo[badge]>> ELSE <<>>

\* String(x) of an optional string: 'undefined' for undefined
StringOf(x) == IF x = <<>> THEN "undefined" ELSE x[1]

\* a + b on strings, as the sequence of the two parts
Concat(a, b) == <<a, b>>

\* Progress with the operands of the division exchanged
Progress_Swapped(completed_days, duration_days) ==
    FMul(FDiv(duration_days, completed_days), 100)

\* (challenge.completed_days / challenge.duration_days) * 100
Progress(completed_days, duration_days) == FMul(FDiv(completed_days, duration_days), 100)

\* {!challenge.is_completed && (<TouchableOpacity ...>Check In Today)}
CheckInButtonShown(challenge) == ~challenge.is_completed

\* renderChallenge(challenge): what the card shows
renderChallenge(challenge) ==
    LET template == FindTemplate(challenge.challenge_type)
    IN  [key |-> challenge.id,
         icon |-> IF template = <<>> THEN "star" ELSE template[1].icon,
         color |-> IF template = <<>> THEN <<>> ELSE <<template[1].color>>,
         iconBackground |-> Concat(StringOf(IF template = <<>> THEN <<>>
                                                               ELSE <<template[1].color>>), "20"),
         progress |-> Progress(challenge.completed_days, challenge.duration_days),
         progressText |-> <<challenge.completed_days, challenge.duration_days>>,
         badges |-> [b \in DOMAIN challenge.badges |->
                        LET badgeData == BadgeData(challenge.badges[b])
                        IN  [key |-> challenge.badges[b],
                             icon |-> IF badgeData = <<>> THEN <<>> ELSE <<badgeData[1].icon>>,
                             color |-> IF badgeData = <<>> THEN <<>> ELSE <<badgeData[1].color>>,
                             label |-> IF badgeData = <<>> THEN <<>> ELSE <<badgeData[1].label>>]],
         checkInButton |-> CheckInButtonShown(challenge),
         completedBanner |-> challenge.is_completed]

\* the header's add button or the empty list's "Browse Challenges"
OpenTemplates ==
    /\ ScreenShown /\ ~ModalShown
    /\ modalVisible' = TRUE
    /\ UNCHANGED <<challenges, isLoading, checkInModal, selectedChallenge, checkInNotes,
                   isSubmitting, mounted, alert, console, net, server, submitted, view>>

\* the close icon of the template modal
CloseTemplates ==
    /\ ScreenShown /\ modalVisible
    /\ modalVisible' = FALSE
    /\ UNCHANGED <<challenges, isLoading, checkInModal, selectedChallenge, checkInNotes,
                   isSubmitting, mounted, alert, console, net, server, submitted, view>>

\* a template card: onPress={() => startChallenge(template)} disabled={isSubmitting}
PressTemplate(template) ==
    /\ ScreenShown /\ modalVisible
    /\ ~isSubmitting
    /\ submitted < MaxMutations
    /\ startChallenge(template)

\* PressCheckIn with the button disabled while isSubmitting
PressCheckIn_Locked(k) ==
    /\ ScreenShown /\ ~ModalShown
    /\ ~isSubmitting
    /\ CheckInButtonShown(challenges[k])
    /\ selectedChallenge' = <<challenges[k]>>
    /\ checkInModal' = TRUE
    /\ UNCHANGED <<challenges, isLoading, modalVisible, checkInNotes, isSubmitting,
                   mounted, alert, console, net, server, submitted, view>>

\* PressCheckIn without setSelectedChallenge(challenge)
PressCheckIn_NoSelect(k) ==
    /\ ScreenShown /\ ~ModalShown
    /\ CheckInButtonShown(challenges[k])
    /\ checkInModal' = TRUE
    /\ UNCHANGED <<challenges, isLoading, modalVisible, selectedChallenge, checkInNotes,
                   isSubmitting, mounted, alert, console, net, server, submitted, view>>

\* a card's "Check In Today"
PressCheckIn(k) ==
    /\ ScreenShown /\ ~ModalShown
    /\ CheckInButtonShown(challenges[k])
    /\ selectedChallenge' = <<challenges[k]>>
    /\ checkInModal' = TRUE
    /\ UNCHANGED <<challenges, isLoading, modalVisible, checkInNotes, isSubmitting,
                   mounted, alert, console, net, server, submitted, view>>

\* the close icon of the check-in modal
CloseCheckIn ==
    /\ ScreenShown /\ checkInModal
    /\ checkInModal' = FALSE
    /\ UNCHANGED <<challenges, isLoading, modalVisible, selectedChallenge, checkInNotes,
                   isSubmitting, mounted, alert, console, net, server, submitted, view>>

\* the notes field: onChangeText={setCheckInNotes}
ChangeNotes(text) ==
    /\ ScreenShown /\ checkInModal
    /\ text # checkInNotes
    /\ checkInNotes' = text
    /\ UNCHANGED <<challenges, isLoading, modalVisible, checkInModal, selectedChallenge,
                   isSubmitting, mounted, alert, console, net, server, submitted, view>>

\* the submit button: onPress={handleCheckIn} disabled={isSubmitting}
SubmitEnabled == ScreenShown /\ checkInModal /\ ~isSubmitting

PressSubmit ==
    /\ SubmitEnabled
    /\ submitted < MaxMutations
    /\ handleCheckIn

\* the screen is disposed while requests may be pending
Unmount ==
    /\ mounted
    /\ mounted' = FALSE
    /\ UNCHANGED <<uiVars, net, server, submitted, view>>

Next ==
    \/ \E i \in DOMAIN net : LoadResolved(i)
    \/ \E i \in DOMAIN net : \E err \in Rejections(net[i]) : LoadRejected(i, err)
    \/ \E i \in DOMAIN net : CreateResolved(i)
    \/ \E i \in DOMAIN net : \E err \in Rejections(net[i]) : CreateRejected(i, err)
    \/ \E i \in DOMAIN net : CheckInResolved(i)
    \/ \E i \in DOMAIN net : \E err \in Rejections(net[i]) : CheckInRejected(i, err)
    \/ OpenTemplates
    \/ CloseTemplates
    \/ \E template \in Templates : PressTemplate(template)
    \/ \E k \in DOMAIN challenges : PressCheckIn(k)
    \/ CloseCheckIn
    \/ \E text \in NoteTexts : ChangeNotes(text)
    \/ PressSubmit
    \/ Unmount
    \/ Serve
    \/ NewDay

Spec == Init /\ [][Next]_vars

(***************************************************************************)
(* The screen of a user without challenges so far, when every create and   *)
(* check-in request gets its response: the continuation of a request in    *)
(* flight is not postponed forever.                                        *)
(***************************************************************************)
InitFresh == Init /\ server.challenges = <<>>

\* the continuation of a create or check-in request runs
MutationSettled ==
    \E i \in DOMAIN net :
        \/ CreateResolved(i)
        \/ CheckInResolved(i)
        \/ \E err \in Rejections(net[i]) : CreateRejected(i, err) \/ CheckInRejected(i, err)

NextResponsive == Next

SpecResponsive == InitFresh /\ [][NextResponsive]_vars /\ WF_vars(MutationSettled)

(***************************************************************************)
(* Rendering on its own: a loaded list of two challenges of one duration   *)
(* is rendered, challenges.map(renderChallenge).                           *)
(***************************************************************************)
RenderedChallenge(id, d, n) ==
    [NewChallenge(id, [challenge_type |-> challengeTemplates[1].type,
                       title |-> challengeTemplates[1].title,
                       description |-> challengeTemplates[1].description,
                       duration_days |-> d])
        EXCEPT !.completed_days = n,
               !.is_completed = (d > 0 /\ n = d),
               !.is_active = ~(d > 0 /\ n = d),
               !.badges = IF d > 0 /\ n = d THEN <<"challenge_completed">> ELSE <<>>]

RenderInputs ==
    {<<RenderedChallenge(1, d, n1), RenderedChallenge(2, d, n2)>> :
        <<d, n1, n2>> \in {t \in (0..MaxDuration) \X (0..MaxDuration) \X (0..MaxDuration) :
                              t[2] <= t[3] /\ t[3] <= t[1]}}

InitRender ==
    /\ challenges \in RenderInputs
    /\ isLoading = FALSE
    /\ modalVisible = FALSE
    /\ checkInModal = FALSE
    /\ selectedChallenge = <<>>
    /\ checkInNotes = <<>>
    /\ isSubmitting = FALSE
    /\ mounted = TRUE
    /\ alert = <<>>
    /\ console = <<>>
    /\ net = <<>>
    /\ server = [challenges |-> challenges, checked |-> {}]
    /\ submitted = 0
    /\ view = <<>>

\* {challenges.map(renderChallenge)}
Render ==
    /\ ScreenShown
    /\ view = <<>>
    /\ view' = [k \in DOMAIN challenges |-> renderChallenge(challenges[k])]
    /\ UNCHANGED <<uiVars, mounted, net, server, submitted>>

NextRender == Render

SpecRender == InitRender /\ [][NextRender]_vars

(***************************************************************************)
(* The check-in form on its own: the modal is open on a loaded challenge,  *)
(* any text of up to MaxNoteLen characters is in the notes field, and the  *)
(* user submits.                                                           *)
(***************************************************************************)
NoteInputs == UNION {[1..n -> Chars] : n \in 0..MaxNoteLen}

FormChallenge == RenderedChallenge(1, challengeTemplates[1].duration, 0)

InitNotes ==
    /\ challenges = <<FormChallenge>>
    /\ isLoading = FALSE
    /\ modalVisible = FALSE
    /\ checkInModal = TRUE
    /\ selectedChallenge = <<FormChallenge>>
    /\ checkInNotes \in NoteInputs
    /\ isSubmitting = FALSE
    /\ mounted = TRUE
    /\ alert = <<>>
    /\ console = <<>>
    /\ net = <<>>
    /\ server = [challenges |-> challenges, checked |-> {}]
    /\ submitted = 0
    /\ view = <<>>

NextNotes == PressSubmit

SpecNotes == InitNotes /\ [][NextNotes]_vars

(***************************************************************************)
(* The screen after the backend has archived the challenge it listed: the  *)
(* list was loaded, and the backend no longer knows the challenge's id.    *)
(***************************************************************************)
ArchivedChallenge == NewChallenge(0, CreateRequest(challengeTemplates[2]).body)

InitArchived ==
    /\ challenges = <<ArchivedChallenge>>
    /\ isLoading = FALSE
    /\ modalVisible = FALSE
    /\ checkInModal = FALSE
    /\ selectedChallenge = <<>>
    /\ checkInNotes = <<>>
    /\ isSubmitting = FALSE
    /\ mounted = TRUE
    /\ alert = <<>>
    /\ console = <<>>
    /\ net = <<>>
    /\ server = [challenges |-> <<>>, checked |-> {}]
    /\ submitted = 0
    /\ view = <<>>

NextArchived == Next

SpecArchived == InitArchived /\ [][NextArchived]_vars

(***************************************************************************)
(* Days remaining: an instant is a number of ticks, DayTicks to the day.   *)
(* A loaded challenge with an end date is rendered at some instant.        *)
(***************************************************************************)
Instants == 0..(MaxDays * DayTicks - 1)

compareLocalAsc(dateLeft, dateRight) ==
    IF dateLeft < dateRight THEN 0 - 1
    ELSE IF dateLeft > dateRight THEN 1 ELSE 0

\* the number of calendar days between the days the two instants fall on
differenceInCalendarDays(dateLeft, dateRight) ==
    (dateLeft \div DayTicks) - (dateRight \div DayTicks)

\* date-fns differenceInDays: the number of full days between two instants
differenceInDays(dateLeft, dateRight) ==
    LET sign == compareLocalAsc(dateLeft, dateRight)
        cal == differenceInCalendarDays(dateLeft, dateRight)
        difference == IF cal < 0 THEN 0 - cal ELSE cal
        moved == dateLeft - sign * difference * DayTicks
        isLastDayNotFull == IF compareLocalAsc(moved, dateRight) = 0 - sign THEN 1 ELSE 0
    IN  sign * (difference - isLastDayNotFull)

\* DaysLeft clamped at zero
DaysLeft_Clamped(end_date, now) ==
    IF differenceInDays(end_date, now) < 0 THEN 0 ELSE differenceInDays(end_date, now)

\* const daysLeft = differenceInDays(new Date(challenge.end_date), new Date())
DaysLeft(end_date, now) == differenceInDays(end_date, now)

DatedChallenge(end_date) == [end_date |-> end_date] @@ FormChallenge

InitDays ==
    /\ challenges \in {<<DatedChallenge(e)>> : e \in Instants}
    /\ isLoading = FALSE
    /\ modalVisible = FALSE
    /\ checkInModal = FALSE
    /\ selectedChallenge = <<>>
    /\ checkInNotes = <<>>
    /\ isSubmitting = FALSE
    /\ mounted = TRUE
    /\ alert = <<>>
    /\ console = <<>>
    /\ net = <<>>
    /\ server = [challenges |-> challenges, checked |-> {}]
    /\ submitted = 0
    /\ view = <<>>

\* the list is rendered at the instant now
RenderAt(now) ==
    /\ ScreenShown
    /\ view = <<>>
    /\ view' = [k \in DOMAIN challenges |->
                   [card |-> renderChallenge(challenges[k]),
                    daysLeft |-> DaysLeft(challenges[k].end_date, now),
                    now |-> now]]
    /\ UNCHANGED <<uiVars, mounted, net, server, submitted>>

NextDays == \E now \in Instants : RenderAt(now)

SpecDays == InitDays /\ [][NextDays]_vars

(***************************************************************************)
(* Rendering what the registries may not know: a loaded challenge of a     *)
(* catalog type or of an unknown one, with up to MaxBadges badges out of   *)
(* the registry's and an unknown one.                                      *)
(***************************************************************************)
ChallengeTypes == {challengeTemplates[k].type : k \in DOMAIN challengeTemplates} \cup {"yoga"}

BadgeIds == DOMAIN badgeInfo \cup {"early_bird"}

LookupInputs ==
    {<<[FormChallenge EXCEPT !.challenge_type = type, !.badges = badges]>> :
        <<type, badges>> \in ChallengeTypes \X UNION {[1..n -> BadgeIds] : n \in 0..MaxBadges}}

InitLookup ==
    /\ challenges \in LookupInputs
    /\ isLoading = FALSE
    /\ modalVisible = FALSE
    /\ checkInModal = FALSE
    /\ selectedChallenge = <<>>
    /\ checkInNotes = <<>>
    /\ isSubmitting = FALSE
    /\ mounted = TRUE
    /\ alert = <<>>
    /\ console = <<>>
    /\ net = <<>>
    /\ server = [challenges |-> challenges, checked |-> {}]
    /\ submitted = 0
    /\ view = <<>>

NextLookup == Render

SpecLookup == InitLookup /\ [][NextLookup]_vars

(***************************************************************************)
(* Properties.                                                             *)
(***************************************************************************)
CheckIns(n) == {i \in DOMAIN n : IsCheckIn(n[i])}

\* the challenge with this id is completed in the store
CompletedInStore(id) ==
    \E k \in DOMAIN challenges : challenges[k].id = id /\ challenges[k].is_completed

\* the check-in modal is open for the challenge with this id, its submit
\* control enabled
SubmitOfferedFor(id) ==
    SubmitEnabled /\ selectedChallenge # <<>> /\ selectedChallenge[1].id = id

\* C1: no check-in affordance, neither the card's "Check In Today" button nor
\* the enabled submit control of the check-in modal, is offered for a
\* challenge that is completed in the store.
C1_NoCheckInOfferedWhenCompleted ==
    ScreenShown =>
        \A k \in DOMAIN challenges :
            challenges[k].is_completed =>
                /\ ~CheckInButtonShown(challenges[k])
                /\ ~SubmitOfferedFor(challenges[k].id)

\* C2: the step that handles a failed check-in leaves the challenge list and
\* the selected challenge exactly as they were.
C2_FailedCheckInChangesNothing ==
    [][\A i \in DOMAIN net : \A err \in Rejections(net[i]) :
          CheckInRejected(i, err) =>
              /\ challenges' = challenges
              /\ selectedChallenge' = selectedChallenge]_vars

\* a failed check-in was reported while a list is held and a challenge selected
C2_Witness ==
    /\ alert # <<>> /\ alert[1].title = "Error"
    /\ alert[1].message \in {"Failed to check in", "Already checked in today"}
    /\ challenges # <<>>
    /\ selectedChallenge # <<>>

\* C3: the step that handles a failed load leaves the challenge list as it
\* was; in particular a non-empty list is not replaced by the empty one.
C3_FailedLoadKeepsList ==
    [][\A i \in DOMAIN net : \A err \in Rejections(net[i]) :
          LoadRejected(i, err) => challenges' = challenges]_vars

\* a load has failed and the list loaded before it is still held
C3_Witness == console # <<>> /\ challenges # <<>>

\* C4: at most one check-in request per challenge is in flight, and while one
\* is in flight isSubmitting holds, so the submit control is disabled.
C4_OneCheckInInFlight ==
    /\ \A i, j \in CheckIns(net) :
          net[i].body.challenge_id = net[j].body.challenge_id => i = j
    /\ (CheckIns(net) # {} => isSubmitting /\ ~SubmitEnabled)

\* a check-in is in flight while its modal is still shown
C4_Witness == CheckIns(net) # {} /\ ScreenShown /\ checkInModal

\* C5: the challenge list changes only in the step that handles a successful
\* load response; no submission and no create or check-in response writes it.
C5_ListWrittenOnlyByLoad ==
    [][challenges' # challenges => \E i \in DOMAIN net : LoadResolved(i)]_vars

\* a check-in has succeeded and the list still shows the days from before it
C5_Witness ==
    /\ alert # <<>> /\ alert[1].title = "Great Job!"
    /\ selectedChallenge # <<>>
    /\ \E k \in DOMAIN challenges :
          /\ challenges[k].id = selectedChallenge[1].id
          /\ challenges[k].completed_days < alert[1].completed_days

\* C6: the step that handles a successful check-in response issues exactly
\* one load request; submitting a check-in and handling its failure issue none.
C6_ReloadAfterCheckIn ==
    [][/\ \A i \in DOMAIN net :
             CheckInResolved(i) => LoadCount(net') = LoadCount(net) + 1
       /\ PressSubmit => LoadCount(net') = LoadCount(net)
       /\ \A i \in DOMAIN net : \A err \in Rejections(net[i]) :
             CheckInRejected(i, err) => LoadCount(net') = LoadCount(net)]_vars

\* a check-in has succeeded and the reload it issued is in flight
C6_Witness ==
    /\ alert # <<>> /\ alert[1].title = "Great Job!"
    /\ LoadCount(net) > 0
    /\ CheckIns(net) = {}

\* C7: after a successful check-in the "new badges earned" signal is shown
\* exactly when the response holds a badge the selected challenge did not hold.
C7_SignalIffBadgeDelta ==
    [][\A i \in DOMAIN net :
          CheckInResolved(i) =>
              (alert'[1].newBadges <=>
                 Range(net[i].resp.data.badges) \ Range(net[i].sel.badges) # {})]_vars

\* C8: a successful check-in whose response repeats the badges the challenge
\* already held shows no "new badges earned" signal.
C8_SameBadgesNoSignal ==
    [][\A i \in DOMAIN net :
          (CheckInResolved(i) /\ net[i].resp.data.badges = net[i].sel.badges)
              => ~alert'[1].newBadges]_vars

\* C9: pressing submit issues a check-in request only for a selected challenge
\* that is not completed in the store, and with no selection it changes nothing.
C9_CheckInOnlyWhenEligible ==
    [][PressSubmit =>
          IF selectedChallenge = <<>>
          THEN UNCHANGED vars
          ELSE ~CompletedInStore(selectedChallenge[1].id)]_vars

\* C10: for duration_days > 0 and 0 <= completed_days <= duration_days the
\* rendered progress is a number in [0, 100], is 0 for no completed day and 100
\* for all of them, and does not decrease from a card to one with more days.
C10_ProgressPercent ==
    view # <<>> =>
        /\ \A k \in DOMAIN view :
              challenges[k].duration_days > 0 =>
                  /\ view[k].progress.kind = "num"
                  /\ FLeq(Zero, view[k].progress)
                  /\ FLeq(view[k].progress, Round(100, 1))
                  /\ (challenges[k].completed_days = 0 => FIs(view[k].progress, 0))
                  /\ (challenges[k].completed_days = challenges[k].duration_days
                        => FIs(view[k].progress, 100))
        /\ \A j, k \in DOMAIN view :
              (/\ challenges[j].duration_days > 0
               /\ challenges[j].duration_days = challenges[k].duration_days
               /\ challenges[j].completed_days <= challenges[k].completed_days)
                  => FLeq(view[j].progress, view[k].progress)

\* a card part of the way and a card with every day completed are rendered
C10_Witness ==
    /\ view # <<>>
    /\ challenges[1].duration_days = 3 /\ challenges[1].completed_days = 1
    /\ challenges[2].completed_days = 3
    /\ ~FIs(view[1].progress, 33) /\ FLeq(Round(33, 1), view[1].progress)
    /\ FLeq(view[1].progress, Round(34, 1))

\* the text t is what is left of the text s after removing a run of whitespace
\* at its start and one at its end, and has no whitespace at either end
IsTrimOf(t, s) ==
    /\ \E a, b \in 0..Len(s) :
          /\ a + b <= Len(s)
          /\ \A j \in 1..a : s[j] \in {" ", "\n"}
          /\ \A j \in (Len(s) - b + 1)..Len(s) : s[j] \in {" ", "\n"}
          /\ t = SubSeq(s, a + 1, Len(s) - b)
    /\ (t # <<>> => t[1] \notin {" ", "\n"} /\ t[Len(t)] \notin {" ", "\n"})

\* C11: the notes of a submitted check-in request are the typed notes without
\* their leading and trailing whitespace, and are absent (never an empty
\* string) when nothing is left of them.
C11_NotesTrimmedOrAbsent ==
    \A i \in CheckIns(net) :
        LET notes == net[i].body.notes
        IN  /\ Len(notes) <= 1
            /\ (notes # <<>> => notes[1] # <<>> /\ IsTrimOf(notes[1], checkInNotes))
            /\ (notes = <<>> => IsTrimOf(<<>>, checkInNotes))

\* a check-in was submitted with only whitespace typed and carries no notes
C11_Witness ==
    /\ CheckIns(net) # {}
    /\ checkInNotes = <<" ", "\n">>
    /\ net[1].body.notes = <<>>

\* C12: the step that handles a successful create response closes the
\* template modal and issues exactly one load; submitting the create and the
\* backend's work on it do neither, and nothing but that step and the modal's
\* own close icon closes the modal.
C12_CreateSuccessClosesAndReloads ==
    [][/\ \A i \in DOMAIN net :
             CreateResolved(i) =>
                 /\ (mounted => ~modalVisible')
                 /\ LoadCount(net') = LoadCount(net) + 1
       /\ \A template \in Templates :
             PressTemplate(template) =>
                 /\ modalVisible' = modalVisible
                 /\ LoadCount(net') = LoadCount(net)
       /\ Serve => modalVisible' = modalVisible /\ LoadCount(net') = LoadCount(net)
       /\ (modalVisible /\ ~modalVisible') =>
             (CloseTemplates \/ \E i \in DOMAIN net : CreateResolved(i))]_vars

\* a create has succeeded on the mounted screen: the modal is closed and the
\* reload is in flight
C12_Witness ==
    /\ mounted
    /\ alert # <<>> /\ alert[1].title = "Success"
    /\ ~modalVisible
    /\ LoadCount(net) > 0

\* C13: the step that handles a failed create leaves the template modal open,
\* issues no load and leaves the challenge list as it was; the template cards
\* are enabled again afterwards.
C13_CreateFailureKeepsModal ==
    [][\A i \in DOMAIN net : \A err \in Rejections(net[i]) :
          CreateRejected(i, err) =>
              /\ modalVisible' = modalVisible
              /\ LoadCount(net') = LoadCount(net)
              /\ challenges' = challenges
              /\ (mounted => ~isSubmitting')]_vars

\* a failed create was reported and the template modal is still open, its
\* cards enabled
C13_Witness ==
    /\ alert # <<>> /\ alert[1].title = "Error"
    /\ alert[1].message \in {"Failed to start challenge", "Could not validate credentials"}
    /\ ScreenShown /\ modalVisible /\ ~isSubmitting
    /\ LoadCount(net) = 0

Creates(n) == {i \in DOMAIN n : IsCreate(n[i])}

\* the last create the user submitted has succeeded, the reload it issued and
\* every other load have delivered their responses, and no load has failed
CreateReloaded ==
    /\ mounted
    /\ alert # <<>> /\ alert[1].title = "Success"
    /\ Creates(net) = {} /\ LoadCount(net) = 0
    /\ console = <<>>

\* C14: once a create has succeeded and the reload it issued has completed,
\* the challenge list contains the created challenge (the newest one of the
\* backend), whatever other load responses arrived in between or later.
C14_CreatedChallengeStaysListed ==
    CreateReloaded =>
        \E k \in DOMAIN challenges :
            challenges[k].id = server.challenges[Len(server.challenges)].id

\* C15: every step that handles a failed load, create or check-in shows an
\* error alert to the user.
C15_EveryFailureShown ==
    [][\A i \in DOMAIN net : \A err \in Rejections(net[i]) :
          (LoadRejected(i, err) \/ CreateRejected(i, err) \/ CheckInRejected(i, err))
              => (alert' # <<>> /\ alert'[1].title = "Error")]_vars

\* the requests that were issued and not answered yet
Unanswered(n) == {i \in DOMAIN n : n[i].status = "sent"}

\* C16: the step that handles a failed load, create or check-in issues no
\* request, and a request is issued only by a press of the user (a template
\* card, the submit button) or by the handling of a successful create or
\* check-in response.
C16_NoAutomaticRetry ==
    [][/\ \A i \in DOMAIN net : \A err \in Rejections(net[i]) :
             (LoadRejected(i, err) \/ CreateRejected(i, err) \/ CheckInRejected(i, err))
                 => net' = RemoveAt(net, i)
       /\ Cardinality(Unanswered(net')) > Cardinality(Unanswered(net)) =>
             \/ \E template \in Templates : PressTemplate(template)
             \/ PressSubmit
             \/ \E i \in DOMAIN net : CreateResolved(i) \/ CheckInResolved(i)]_vars

\* a load and a create or check-in have failed and no request is in flight
C16_Witness ==
    /\ mounted
    /\ console # <<>>
    /\ alert # <<>> /\ alert[1].title = "Error"
    /\ net = <<>>

\* C17: the step that handles a check-in rejected as NotFound shows an error
\* alert and issues a load of the challenge list.
C17_NotFoundReloads ==
    [][\A i \in DOMAIN net : \A err \in Rejections(net[i]) :
          (CheckInRejected(i, err) /\ err.kind = "NotFound") =>
              /\ alert' # <<>> /\ alert'[1].title = "Error"
              /\ LoadCount(net') = LoadCount(net) + 1]_vars

\* C18: the alert of a failed create or check-in shows the detail string of
\* the error response when it has one, and otherwise 'Failed to start
\* challenge' for a create and 'Failed to check in' for a check-in.
C18_DetailOrFallback ==
    [][\A i \in DOMAIN net : \A err \in Rejections(net[i]) :
          /\ CreateRejected(i, err) =>
                alert'[1].message = IF err.detail # <<>> THEN err.detail[1]
                                    ELSE "Failed to start challenge"
          /\ CheckInRejected(i, err) =>
                alert'[1].message = IF err.detail # <<>> THEN err.detail[1]
                                    ELSE "Failed to check in"]_vars

\* the backend's detail of a refused second check-in of the day is shown
C18_Witness ==
    /\ alert # <<>> /\ alert[1].title = "Error"
    /\ alert[1].message = "Already checked in today"
    /\ server.checked # {}

\* C19: a challenge the list shows as completed is still in the list, and
\* still shown as completed, after every step.
C19_CompletedStaysCompleted ==
    [][\A k \in DOMAIN challenges :
          challenges[k].is_completed =>
              \E j \in DOMAIN challenges' :
                  /\ challenges'[j].id = challenges[k].id
                  /\ challenges'[j].is_completed]_vars

\* C20: on the unmounted screen, the step that handles the response or the
\* failure of a pending load, create or check-in changes no state of the
\* component and issues no request: it only removes the request it handles.
C20_ResponseAfterUnmountDiscarded ==
    [][\A i \in DOMAIN net :
          (/\ ~mounted
           /\ \/ LoadResolved(i) \/ CreateResolved(i) \/ CheckInResolved(i)
              \/ \E err \in Rejections(net[i]) :
                    LoadRejected(i, err) \/ CreateRejected(i, err) \/ CheckInRejected(i, err))
              => /\ UNCHANGED <<challenges, isLoading, modalVisible, checkInModal,
                                selectedChallenge, checkInNotes, isSubmitting>>
                 /\ net' = RemoveAt(net, i)]_vars

\* C21: the rendered progress of a challenge whose duration_days is 0 is the
\* number 0.
C21_ZeroDurationIsZeroPercent ==
    view # <<>> =>
        \A k \in DOMAIN view :
            challenges[k].duration_days = 0 => FIs(view[k].progress, 0)

\* n is the number of whole days in the span of d ticks, counted towards zero
IsWholeDays(n, d) ==
    IF d >= 0
    THEN n >= 0 /\ n * DayTicks <= d /\ d < (n + 1) * DayTicks
    ELSE n <= 0 /\ (0 - n) * DayTicks <= 0 - d /\ 0 - d < (1 - n) * DayTicks

\* C22 as stated: the days remaining are the whole-day difference between the
\* end date and the instant of rendering, and are negative whenever the end
\* date has passed.
C22_DaysRemainingNegativeOncePassed ==
    view # <<>> =>
        \A k \in DOMAIN view :
            /\ IsWholeDays(view[k].daysLeft, challenges[k].end_date - view[k].now)
            /\ (challenges[k].end_date < view[k].now => view[k].daysLeft < 0)

\* C22 as amended: the days remaining are the whole-day difference between the
\* end date and the instant of rendering, counted towards zero; they are
\* negative once the end date has passed by a whole day or more, and zero
\* while it has passed by less.
C22_DaysRemainingWholeDays ==
    view # <<>> =>
        \A k \in DOMAIN view :
            LET d == challenges[k].end_date - view[k].now
            IN  /\ IsWholeDays(view[k].daysLeft, d)
                /\ (0 - d >= DayTicks => view[k].daysLeft < 0)
                /\ ((d < 0 /\ 0 - d < DayTicks) => view[k].daysLeft = 0)

\* a challenge is rendered more than a day, and less than two, after its end
C22_Witness ==
    /\ view # <<>>
    /\ view[1].now - challenges[1].end_date > DayTicks
    /\ view[1].now - challenges[1].end_date < 2 * DayTicks
    /\ view[1].daysLeft = 0 - 1

\* C23: the card of a challenge whose challenge_type is not in the catalog is
\* rendered with a fallback icon and with a fallback colour: the icon's colour
\* is defined and the icon's background is built from a colour.
C23_UnknownTypeFallback ==
    view # <<>> =>
        \A k \in DOMAIN view :
            FindTemplate(challenges[k].challenge_type) = <<>> =>
                /\ view[k].icon = "star"
                /\ view[k].color # <<>>
                /\ view[k].iconBackground[1] # "undefined"

\* C24: a badge whose identifier is not in the badge registry is rendered with
\* a label, an icon and a colour.
C24_UnknownBadgeFallback ==
    view # <<>> =>
        \A k \in DOMAIN view : \A b \in DOMAIN view[k].badges :
            challenges[k].badges[b] \notin DOMAIN badgeInfo =>
                /\ view[k].badges[b].label # <<>>
                /\ view[k].badges[b].icon # <<>>
                /\ view[k].badges[b].color # <<>>

\* the create and check-in requests in flight
Mutations(n) == Creates(n) \cup CheckIns(n)

\* C25: a "Check In Today" button that is on the screen and not covered by a
\* modal can be pressed whether or not a create or check-in is in flight, and
\* pressing it selects its challenge and shows the check-in modal.
C25_CheckInOpensWhileSubmitting ==
    [][\A k \in DOMAIN challenges :
          /\ (ScreenShown /\ ~ModalShown /\ ~challenges[k].is_completed)
                => ENABLED PressCheckIn(k)
          /\ PressCheckIn(k) =>
                /\ selectedChallenge' = <<challenges[k]>>
                /\ checkInModal']_vars

\* while the check-in of one challenge is in flight, the check-in modal is
\* open for another challenge
C25_Witness ==
    /\ ScreenShown /\ checkInModal /\ isSubmitting
    /\ selectedChallenge # <<>>
    /\ \E i \in CheckIns(net) : net[i].body.challenge_id # selectedChallenge[1].id

\* C26: on the mounted screen isSubmitting holds exactly while a create or a
\* check-in request is in flight, and at most one such request, of either
\* kind, is in flight at any time.
C26_FlagIffMutationInFlight ==
    /\ (mounted => (isSubmitting <=> Mutations(net) # {}))
    /\ Cardinality(Mutations(net)) <= 1

\* a create is in flight on the mounted screen, the check-in modal closed
C26_Witness ==
    /\ mounted /\ isSubmitting
    /\ Creates(net) # {}
    /\ challenges # <<>>

\* the backend's challenge with this id
Stored(id) == server.challenges[CHOOSE j \in Find(server.challenges, id) : TRUE]

\* C27: when a check-in has succeeded, every request has completed and no load
\* has failed, the list holds the backend's completed_days and badges for
\* each of its challenges.
C27_ListMirrorsBackendAfterCheckIn ==
    (/\ mounted
     /\ alert # <<>> /\ alert[1].title = "Great Job!"
     /\ net = <<>>
     /\ console = <<>>)
        => \A k \in DOMAIN challenges :
              /\ Find(server.challenges, challenges[k].id) # {}
              /\ challenges[k].completed_days = Stored(challenges[k].id).completed_days
              /\ challenges[k].badges = Stored(challenges[k].id).badges

\* C28: the step that handles the success response of a check-in leaves the
\* check-in modal open and its notes as typed when the modal is open for
\* another challenge than the one the request was for, and closes the modal
\* and clears the notes when it is open for that one.
C28_ResponseClosesOnlyItsModal ==
    [][\A i \in DOMAIN net :
          (CheckInResolved(i) /\ mounted /\ checkInModal /\ selectedChallenge # <<>>) =>
              IF selectedChallenge[1].id = net[i].body.challenge_id
              THEN ~checkInModal' /\ checkInNotes' = <<>>
              ELSE checkInModal' /\ checkInNotes' = checkInNotes]_vars

\* C29: on the mounted screen the step that handles the response of a create
\* or check-in, success or failure, leaves isSubmitting false; and when every
\* create and check-in request gets its response, isSubmitting does not stay
\* true forever, so the submit controls are enabled again.
C29_FlagClearedByResponse ==
    /\ [][(mounted /\ MutationSettled) => ~isSubmitting']_vars
    /\ (mounted /\ isSubmitting) ~> (~mounted \/ ~isSubmitting)

\* a check-in has failed and the submit button of the modal is enabled again
C29_Witness ==
    /\ alert # <<>> /\ alert[1].title = "Error"
    /\ alert[1].message = "Failed to check in"
    /\ submitted > 0
    /\ SubmitEnabled

\* C30: while the check-in modal is visible a challenge is selected; the
\* selection is written only by a press of a "Check In Today" button, to that
\* button's challenge; and a submitted check-in request carries the id of the
\* selected challenge.
C30_RequestForSelectedChallenge ==
    /\ [](checkInModal => selectedChallenge # <<>>)
    /\ [][(selectedChallenge' # selectedChallenge =>
               \E k \in DOMAIN challenges : PressCheckIn(k))
           /\ (\A k \in DOMAIN challenges :
                  PressCheckIn(k) => selectedChallenge' = <<challenges[k]>>)
           /\ (PressSubmit =>
                  (/\ Len(net') = Len(net) + 1
                   /\ IsCheckIn(net'[Len(net')])
                   /\ net'[Len(net')].body.challenge_id = selectedChallenge[1].id))]_vars

\* the check-in of the second challenge of the list is in flight, submitted
\* from the modal opened for it
C30_Witness ==
    /\ ScreenShown /\ checkInModal
    /\ Len(challenges) = 2
    /\ selectedChallenge # <<>> /\ selectedChallenge[1].id = challenges[2].id
    /\ \E i \in CheckIns(net) : net[i].body.challenge_id = challenges[2].id

====
